---- MODULE Spec2Model ----
(***************************************************************************)
(* The background task scheduler of src/background_task_service.py:        *)
(* BackgroundTaskService and the helpers it uses.                          *)
(*                                                                         *)
(* JSON values.  A dictionary key that may be missing is a sequence of     *)
(* length 0 (the key is absent) or 1 (the key holds that value), and       *)
(* Get(o, d) is dict.get(key, d).  The sub-dictionaries runtime, bounty    *)
(* and q_learning are only ever read with .get(name, {}), so a missing     *)
(* sub-dictionary is the record whose keys are all absent.  "state" is     *)
(* written (setdefault), so its own presence is modelled.                  *)
(*                                                                         *)
(* Time is a natural number of seconds.  A JSON timestamp value is a       *)
(* record [k, t]: k = "null" (JSON null), "empty" (the string ""), "bad"   *)
(* (a string datetime.fromisoformat rejects) or "iso" (the isoformat()     *)
(* text of the instant t).  Rewards and weights are the integers that the  *)
(* floats of the code hold exactly.                                        *)
(***************************************************************************)
EXTENDS Integers, Sequences, FiniteSets, TLC

VARIABLES file, board, now, pc, data, preferred, picked, sel, ret, calls, fails, raised, probe

vars == <<file, board, now, pc, data, preferred, picked, sel, ret, calls, fails, raised, probe>>

\* ------------------------------------------------------------------ bounds
\* The clock stops at MaxTime.
MaxTime == 3
\* No cycle starts once a consecutive_failures counter has reached MaxFailures.
MaxFailures == 2
\* The longest task list handed to the selection policy on its own.
MaxList == 3

\* ------------------------------------------------------------- JSON helpers
Absent == <<>>

Some(v) == <<v>>

Get(o, d) == IF o = <<>> THEN d ELSE o[1]

Null == [k |-> "null", t |-> 0]

EmptyStr == [k |-> "empty", t |-> 0]

BadStr == [k |-> "bad", t |-> 0]

\* datetime.isoformat() of the instant t
isoformat(t) == [k |-> "iso", t |-> t]

\* A mutation of parse_iso_or_none: a string that does not parse counts as
\* an instant that is never reached.
ParseBadAsNever(value) ==
    IF value.k \in {"null", "empty"} THEN Absent
    ELSE IF value.k = "iso" THEN Some(value.t)
    ELSE Some(1000)

\* parse_iso_or_none: None (Absent) for a falsy value and for a string that
\* fromisoformat rejects, the instant otherwise.  The argument is the result
\* of state.get("next_available_at"): None when the key is absent or null.
parse_iso_or_none(value) ==
    IF value.k \in {"null", "empty"} THEN Absent
    ELSE IF value.k = "iso" THEN Some(value.t)
    ELSE Absent

EmptyState ==
    [status |-> Absent, available |-> Absent, last_started_at |-> Absent,
     last_completed_at |-> Absent, next_available_at |-> Absent,
     last_result |-> Absent, consecutive_failures |-> Absent]

\* task.get("state", {})
StateOf(task) == Get(task.state, EmptyState)

\* ------------------------------------------------------- availability engine
\* A mutation of _available: the cooldown comparison made non-strict.
AvailableLate(task, t) ==
    LET state == StateOf(task)
        next_at == parse_iso_or_none(Get(state.next_available_at, Null))
    IN  /\ Get(task.runtime.enabled, TRUE)
        /\ state.status # Some("running")
        /\ ~(next_at # Absent /\ t <= next_at[1])

\* A mutation of _available: a task that has no state yet is not available.
AvailableNeedsState(task, t) ==
    LET state == StateOf(task)
        next_at == parse_iso_or_none(Get(state.next_available_at, Null))
    IN  /\ task.state # Absent
        /\ Get(task.runtime.enabled, TRUE)
        /\ state.status # Some("running")
        /\ ~(next_at # Absent /\ t < next_at[1])

\* BackgroundTaskService._available(task, now)
_available(task, t) ==
    LET runtime == task.runtime
        state == StateOf(task)
    IN  IF ~Get(runtime.enabled, TRUE) THEN FALSE
        ELSE IF state.status = Some("running") THEN FALSE
        ELSE LET next_at == parse_iso_or_none(Get(state.next_available_at, Null))
             IN  IF next_at # Absent /\ t < next_at[1] THEN FALSE ELSE TRUE

\* A mutation of RefreshTask: state.available is computed only when the key is missing.
RefreshTaskOnce(task, t) ==
    [task EXCEPT !.state = Some([StateOf(task) EXCEPT
        !.available = IF StateOf(task).available = Absent THEN Some(_available(task, t))
                      ELSE StateOf(task).available])]

\* One task of _refresh_availability: setdefault("state", {}) and the
\* overwrite of state.available.
RefreshTask(task, t) ==
    [task EXCEPT !.state = Some([StateOf(task) EXCEPT !.available = Some(_available(task, t))])]

\* A mutation of _refresh_availability: the refresh also clears the
\* next_available_at of the tasks it finds available.
RefreshClearing(tasks, t) ==
    [k \in 1..Len(tasks) |->
        IF _available(tasks[k], t)
        THEN [tasks[k] EXCEPT !.state = Some([StateOf(tasks[k]) EXCEPT
                !.available = Some(TRUE), !.next_available_at = Some(Null)])]
        ELSE RefreshTask(tasks[k], t)]

\* A mutation of _refresh_availability: a task that has no state is left without one.
RefreshSkippingStateless(tasks, t) ==
    [k \in 1..Len(tasks) |-> IF tasks[k].state = Absent THEN tasks[k] ELSE RefreshTask(tasks[k], t)]

\* BackgroundTaskService._refresh_availability(data) with utc_now() = t
_refresh_availability(tasks, t) ==
    [k \in 1..Len(tasks) |-> RefreshTask(tasks[k], t)]

\* ---------------------------------------------------------- selection policy
\* t.get("state", {}).get("available", False)
AvailableFlag(task) == Get(StateOf(task).available, FALSE)

\* The sort key of _pick_task_id: (float(reward) * float(reward_weight), int(priority))
SortKey(task) ==
    <<Get(task.bounty.reward, 0) * Get(task.q_learning.reward_weight, 1),
      Get(task.bounty.priority, 0)>>

\* A mutation of KeyLess: the priority compared before the score.
KeyLessPriorityFirst(a, b) == a[2] < b[2] \/ (a[2] = b[2] /\ a[1] < b[1])

\* Python's tuple order on sort keys
KeyLess(a, b) == a[1] < b[1] \/ (a[1] = b[1] /\ a[2] < b[2])

\* A mutation of InsertDesc: the new element goes before the elements of equal key.
InsertDescUnstable(sorted, x) ==
    LET n == Cardinality({j \in 1..Len(sorted) : KeyLess(SortKey(x), SortKey(sorted[j]))})
    IN  SubSeq(sorted, 1, n) \o <<x>> \o SubSeq(sorted, n + 1, Len(sorted))

\* One insertion of the stable descending sort: x goes after every element
\* whose key is not smaller than its own.
InsertDesc(sorted, x) ==
    LET n == Cardinality({j \in 1..Len(sorted) : ~KeyLess(SortKey(sorted[j]), SortKey(x))})
    IN  SubSeq(sorted, 1, n) \o <<x>> \o SubSeq(sorted, n + 1, Len(sorted))

RECURSIVE SortDesc(_)
\* candidates.sort(key=..., reverse=True): stable, greatest key first
SortDesc(s) ==
    IF Len(s) = 0 THEN <<>>
    ELSE InsertDesc(SortDesc(SubSeq(s, 1, Len(s) - 1)), s[Len(s)])

\* Python truthiness of an Optional[str]: None and "" are falsy
Truthy(o) == o # Absent /\ o # Some("")

\* A mutation of _pick_task_id: an ineligible preferred id falls back to greedy selection.
PickWithFallback(tasks, preferred_task_id) ==
    LET candidates == SelectSeq(tasks, AvailableFlag)
        hit == \E k \in 1..Len(tasks) : tasks[k].id = preferred_task_id /\ AvailableFlag(tasks[k])
    IN  IF Truthy(preferred_task_id) /\ hit THEN preferred_task_id
        ELSE IF Len(candidates) = 0 THEN Absent
        ELSE SortDesc(candidates)[1].id

\* BackgroundTaskService._pick_task_id(data, preferred_task_id): an id, or Absent for None
_pick_task_id(tasks, preferred_task_id) ==
    IF Truthy(preferred_task_id)
    THEN IF \E k \in 1..Len(tasks) : tasks[k].id = preferred_task_id /\ AvailableFlag(tasks[k])
         THEN preferred_task_id
         ELSE Absent
    ELSE LET candidates == SelectSeq(tasks, AvailableFlag)
         IN  IF Len(candidates) = 0 THEN Absent
             ELSE SortDesc(candidates)[1].id

\* next(t for t in data.get("tasks", []) if t.get("id") == task_id): the
\* position of the first record with that id
FirstWithId(tasks, task_id) ==
    CHOOSE k \in 1..Len(tasks) :
        /\ tasks[k].id = task_id
        /\ \A j \in 1..(k - 1) : tasks[j].id # task_id

\* run_once lines 188-191: the selected record marked running at time t
MarkRunning(task, t) ==
    [task EXCEPT !.state = Some([StateOf(task) EXCEPT
        !.status = Some("running"),
        !.last_started_at = Some(isoformat(t)),
        !.available = Some(FALSE)])]

\* ------------------------------------------------------------------- settle
\* A mutation of _mark_post_run: the status "running" is left in place.
MarkPostRunStillRunning(task, res, t) ==
    LET state == StateOf(task)
        cooldown == Get(task.bounty.cooldown_sec, 0)
    IN  [task EXCEPT !.state = Some([state EXCEPT
            !.last_completed_at = Some(isoformat(t)),
            !.last_result = Some(res.details),
            !.consecutive_failures =
                Some(IF res.ok THEN 0 ELSE Get(state.consecutive_failures, 0) + 1),
            !.next_available_at =
                Some(IF cooldown > 0 THEN isoformat(t + cooldown) ELSE Null),
            !.available = Some(IF cooldown > 0 THEN FALSE ELSE TRUE)])]

\* A mutation of _mark_post_run: the failure counter is not reset by a success.
MarkPostRunNoReset(task, res, t) ==
    LET state == StateOf(task)
        cooldown == Get(task.bounty.cooldown_sec, 0)
    IN  [task EXCEPT !.state = Some([state EXCEPT
            !.status = Some(IF res.ok THEN "success" ELSE "failed"),
            !.last_completed_at = Some(isoformat(t)),
            !.last_result = Some(res.details),
            !.consecutive_failures =
                Some(IF res.ok THEN Get(state.consecutive_failures, 0)
                     ELSE Get(state.consecutive_failures, 0) + 1),
            !.next_available_at =
                Some(IF cooldown > 0 THEN isoformat(t + cooldown) ELSE Null),
            !.available = Some(IF cooldown > 0 THEN FALSE ELSE TRUE)])]

\* A mutation of _mark_post_run: every settled run is recorded as a success.
MarkPostRunAlwaysSuccess(task, res, t) ==
    LET state == StateOf(task)
        cooldown == Get(task.bounty.cooldown_sec, 0)
    IN  [task EXCEPT !.state = Some([state EXCEPT
            !.status = Some("success"),
            !.last_completed_at = Some(isoformat(t)),
            !.last_result = Some(res.details),
            !.consecutive_failures =
                Some(IF res.ok THEN 0 ELSE Get(state.consecutive_failures, 0) + 1),
            !.next_available_at =
                Some(IF cooldown > 0 THEN isoformat(t + cooldown) ELSE Null),
            !.available = Some(IF cooldown > 0 THEN FALSE ELSE TRUE)])]

\* BackgroundTaskService._mark_post_run(task, result) with utc_now() = t
_mark_post_run(task, res, t) ==
    LET state == StateOf(task)
        cooldown == Get(task.bounty.cooldown_sec, 0)
    IN  [task EXCEPT !.state = Some([state EXCEPT
            !.status = Some(IF res.ok THEN "success" ELSE "failed"),
            !.last_completed_at = Some(isoformat(t)),
            !.last_result = Some(res.details),
            !.consecutive_failures =
                Some(IF res.ok THEN 0 ELSE Get(state.consecutive_failures, 0) + 1),
            !.next_available_at =
                Some(IF cooldown > 0 THEN isoformat(t + cooldown) ELSE Null),
            !.available = Some(IF cooldown > 0 THEN FALSE ELSE TRUE)])]

\* ------------------------------------------------------ bounty board publisher
\* One entry of _to_bounty_board; .get(key) without default gives None (Null)
BoardEntry(t) ==
    [id |-> t.id, name |-> t.name, action |-> t.action, domain |-> t.domain,
     available |-> AvailableFlag(t),
     cooldown_sec |-> Get(t.bounty.cooldown_sec, 0),
     next_available_at |-> Get(StateOf(t).next_available_at, Null),
     reward |-> Get(t.bounty.reward, 0),
     priority |-> Get(t.bounty.priority, 0),
     state_key |-> t.q_learning.state_key,
     action_key |-> t.q_learning.action_key,
     reward_weight |-> Get(t.q_learning.reward_weight, 1),
     last_result |-> StateOf(t).last_result]

\* BackgroundTaskService._to_bounty_board(data) with utc_now() = t: the
\* snapshot; the refresh it starts with also changes data (see Publish)
_to_bounty_board(tasks, t) ==
    LET fresh == _refresh_availability(tasks, t)
    IN  [updated_at |-> isoformat(t), loop_type |-> "closed",
         tasks |-> [k \in 1..Len(fresh) |-> BoardEntry(fresh[k])]]

\* ---------------------------------------------------------- action dispatcher
\* str.strip() on the action strings of the model
strip(s) == IF s = " reload_service " THEN "reload_service" ELSE s

\* (task.get("action") or "").strip()
ActionKey(task) == strip(Get(task.action, ""))

\* The action keys _execute_action hands to an adapter
Recognized == {"memory_update", "reload_service", "claim_daily_rewards", "close_advertisement"}

\* _execute_action line 141: the result for an action no branch matches
UnknownResult(task) == [ok |-> FALSE, details |-> "Unknown action: " \o ActionKey(task)]

\* ------------------------------------------------------------- task files
Bounty(reward, priority, cooldown_sec) ==
    [reward |-> reward, priority |-> priority, cooldown_sec |-> cooldown_sec]

MkTask(id, action, enabled, bounty, reward_weight, state) ==
    [id |-> id, name |-> Some("job"), action |-> action, domain |-> Absent,
     runtime |-> [enabled |-> enabled],
     bounty |-> bounty,
     q_learning |-> [state_key |-> Some("s0"), action_key |-> Absent,
                     reward_weight |-> reward_weight],
     state |-> state]

\* The task of the end-to-end scenario: no state yet, a cooldown, enabled by default.
TaskMem == MkTask(Some("a"), Some("memory_update"), Absent, Bounty(Some(10), Some(1), Some(2)), Absent, Absent)

\* Same score (5 * 2.0) and priority as TaskMem, no cooldown.
TaskClaim == MkTask(Some("b"), Some("claim_daily_rewards"), Some(TRUE), Bounty(Some(5), Some(1), Absent), Some(2), Absent)

\* Lower score, higher priority; the action key needs stripping.
TaskReload == MkTask(Some("b"), Some(" reload_service "), Some(TRUE), Bounty(Some(5), Some(5), Some(0)), Some(1), Absent)

\* A disabled task that outranks the others.
TaskOff == MkTask(Some("a"), Some("memory_update"), Some(FALSE), Bounty(Some(10), Some(5), Some(2)), Some(1), Absent)

\* An action no branch of _execute_action matches.
TaskDance == MkTask(Some("b"), Some("dance"), Some(TRUE), Bounty(Some(10), Some(5), Some(2)), Absent, Absent)

\* A record without id, and one whose id is the empty string.
TaskNoId == MkTask(Absent, Some("memory_update"), Some(TRUE), Bounty(Some(10), Some(5), Absent), Absent, Absent)

TaskEmptyId == MkTask(Some(""), Some("close_advertisement"), Absent, Bounty(Absent, Absent, Some(2)), Absent, Absent)

\* A record persisted with status "running" (written by hand or by another tool).
TaskStuck ==
    MkTask(Some("a"), Some("memory_update"), Some(TRUE), Bounty(Some(10), Some(1), Some(2)), Absent,
           Some([EmptyState EXCEPT !.status = Some("running"), !.available = Some(TRUE)]))

\* A record that failed once before and whose next_available_at does not parse.
TaskBadStamp ==
    MkTask(Some("b"), Some("claim_daily_rewards"), Some(TRUE), Bounty(Some(5), Some(5), Some(2)), Absent,
           Some([EmptyState EXCEPT !.status = Some("failed"), !.next_available_at = Some(BadStr),
                                   !.consecutive_failures = Some(1), !.available = Some(FALSE)]))

\* A disabled record without cooldown.
TaskOffFree == MkTask(Some("b"), Some("memory_update"), Some(FALSE), Bounty(Some(1), Some(1), Some(0)), Absent, Absent)

TaskPool ==
    {TaskMem, TaskClaim, TaskReload, TaskOff, TaskOffFree, TaskDance, TaskNoId, TaskEmptyId, TaskStuck,
     TaskBadStamp}

\* The task files a cycle may find: one or two records of the pool, in any
\* order; ids are not validated by _load, so two records may share one.
TaskFiles == {<<t>> : t \in TaskPool} \cup {<<t, u>> : t \in TaskPool, u \in TaskPool}

\* The preferred_task_id argument of run_once: None, "", or an id
PreferredIds == {Absent, Some(""), Some("a"), Some("b"), Some("zz")}

\* What an adapter method may return: the two results of the adapters of the
\* source (lines 39-56), either of them for any recognized action, since the
\* adapters are replaceable
HandlerResults ==
    {[ok |-> TRUE, details |-> "Wrote log"], [ok |-> FALSE, details |-> "not configured"]}

\* ------------------------------------------------------------------- state
\* Service instances (processes started on the same files)
Insts == {1, 2}

NoReturn == [kind |-> "none", task_id |-> Absent, ok |-> Absent, details |-> Absent]

\* {"ran": False, "reason": "no_available_task"}
NoTaskReturn == [kind |-> "no_available_task", task_id |-> Absent, ok |-> Absent, details |-> Absent]

\* {"ran": True, "task_id": ..., "ok": ..., "details": ...}
RanReturn(task_id, res) ==
    [kind |-> "ran", task_id |-> task_id, ok |-> Some(res.ok), details |-> Some(res.details)]

\* run_once left by an exception
RaisedReturn == [kind |-> "raised", task_id |-> Absent, ok |-> Absent, details |-> Absent]

Failures(task) == Get(StateOf(task).consecutive_failures, 0)

InitCommon ==
    /\ board = Absent
    /\ now = 0
    /\ data = [i \in Insts |-> <<>>]
    /\ preferred = [i \in Insts |-> Absent]
    /\ picked = [i \in Insts |-> Absent]
    /\ sel = [i \in Insts |-> 0]
    /\ ret = [i \in Insts |-> NoReturn]
    /\ calls = [i \in Insts |-> 0]
    /\ raised = {}

\* No function under test outside SpecPure
NoProbe == [tasks |-> <<>>, t |-> 0, p |-> Absent, step |-> "off", flags |-> <<>>, id |-> Absent]

Init ==
    /\ InitCommon
    /\ probe = NoProbe
    /\ \E f \in TaskFiles :
        /\ file = Some(f)
        /\ fails = [k \in 1..Len(f) |-> Failures(f[k])]
    /\ pc = [i \in Insts |-> IF i = 1 THEN "idle" ELSE "off"]

\* The locals of run_once are gone when it returns or raises
Leave(i, value) ==
    /\ pc' = [pc EXCEPT ![i] = "idle"]
    /\ ret' = [ret EXCEPT ![i] = value]
    /\ data' = [data EXCEPT ![i] = <<>>]
    /\ preferred' = [preferred EXCEPT ![i] = Absent]
    /\ picked' = [picked EXCEPT ![i] = Absent]
    /\ sel' = [sel EXCEPT ![i] = 0]

\* A mutation of Publish: the records of disabled tasks are dropped from the saved file.
PublishPruned(tasks, t) ==
    LET Enabled(task) == Get(task.runtime.enabled, TRUE)
    IN  /\ board' = Some(_to_bounty_board(tasks, t))
        /\ file' = Some(_refresh_availability(SelectSeq(tasks, Enabled), t))

\* A mutation of Publish: the entries of the previous board that the new
\* snapshot has no position for are kept.
PublishMerging(tasks, t) ==
    LET snapshot == _to_bounty_board(tasks, t)
        old == IF board = Absent THEN <<>> ELSE board[1].tasks
    IN  /\ board' = Some([snapshot EXCEPT
                !.tasks = snapshot.tasks \o SubSeq(old, Len(snapshot.tasks) + 1, Len(old))])
        /\ file' = Some(_refresh_availability(tasks, t))

\* _write_bounty_board(data); _save(data): the board is written from the
\* collection refreshed by _to_bounty_board, and the same collection is saved
Publish(tasks, t) ==
    /\ board' = Some(_to_bounty_board(tasks, t))
    /\ file' = Some(_refresh_availability(tasks, t))

\* run_once lines 178-179: load the task file and refresh
Load(i, p) ==
    /\ pc[i] = "idle"
    /\ file # Absent
    /\ \A k \in 1..Len(file[1]) : Failures(file[1][k]) < MaxFailures /\ fails[k] < MaxFailures
    /\ pc' = [pc EXCEPT ![i] = "loaded"]
    /\ data' = [data EXCEPT ![i] = _refresh_availability(file[1], now)]
    /\ preferred' = [preferred EXCEPT ![i] = p]
    /\ ret' = [ret EXCEPT ![i] = NoReturn]
    /\ calls' = [calls EXCEPT ![i] = 0]
    /\ UNCHANGED <<file, board, now, picked, sel, fails, raised, probe>>

\* A mutation of SelectNone: the early return without publishing or saving.
SelectNoneSilent(i) ==
    /\ pc[i] = "loaded"
    /\ ~Truthy(_pick_task_id(data[i], preferred[i]))
    /\ Leave(i, NoTaskReturn)
    /\ UNCHANGED <<file, board, now, calls, fails, raised, probe>>

\* run_once lines 181-185: nothing selected
SelectNone(i) ==
    /\ pc[i] = "loaded"
    /\ ~Truthy(_pick_task_id(data[i], preferred[i]))
    /\ Publish(data[i], now)
    /\ Leave(i, NoTaskReturn)
    /\ UNCHANGED <<now, calls, fails, raised, probe>>

\* A mutation of SelectRun: the collection is saved as soon as the record is
\* marked running.
SelectRunSaving(i) ==
    LET task_id == _pick_task_id(data[i], preferred[i])
        k == FirstWithId(data[i], task_id)
    IN  /\ pc[i] = "loaded"
        /\ Truthy(task_id)
        /\ picked' = [picked EXCEPT ![i] = task_id]
        /\ sel' = [sel EXCEPT ![i] = k]
        /\ data' = [data EXCEPT ![i] = [data[i] EXCEPT ![k] = MarkRunning(data[i][k], now)]]
        /\ calls' = [calls EXCEPT ![i] = IF ActionKey(data[i][k]) \in Recognized THEN 1 ELSE 0]
        /\ pc' = [pc EXCEPT ![i] = "running"]
        /\ file' = Some([data[i] EXCEPT ![k] = MarkRunning(data[i][k], now)])
        /\ UNCHANGED <<board, now, preferred, ret, fails, raised, probe>>

\* run_once lines 181-193: a task id selected, the first record with that id
\* marked running and handed to _execute_action
SelectRun(i) ==
    LET task_id == _pick_task_id(data[i], preferred[i])
        k == FirstWithId(data[i], task_id)
    IN  /\ pc[i] = "loaded"
        /\ Truthy(task_id)
        /\ picked' = [picked EXCEPT ![i] = task_id]
        /\ sel' = [sel EXCEPT ![i] = k]
        /\ data' = [data EXCEPT ![i] = [data[i] EXCEPT ![k] = MarkRunning(data[i][k], now)]]
        /\ calls' = [calls EXCEPT ![i] = IF ActionKey(data[i][k]) \in Recognized THEN 1 ELSE 0]
        /\ pc' = [pc EXCEPT ![i] = "running"]
        /\ UNCHANGED <<file, board, now, preferred, ret, fails, raised, probe>>

\* A mutation of Complete: every record that carries the selected id is settled.
CompleteSettlingAll(i, res) ==
    LET k == sel[i]
        settled == [j \in 1..Len(data[i]) |->
                        IF data[i][j].id = picked[i] THEN _mark_post_run(data[i][j], res, now)
                        ELSE data[i][j]]
        fresh == _refresh_availability(settled, now)
    IN  /\ Publish(fresh, now)
        /\ Leave(i, RanReturn(picked[i], res))
        /\ fails' = [fails EXCEPT ![k] = IF res.ok THEN 0 ELSE fails[k] + 1]
        /\ UNCHANGED <<now, calls, raised, probe>>

\* run_once lines 194-199: settle, refresh, publish, persist, return
Complete(i, res) ==
    LET k == sel[i]
        settled == [data[i] EXCEPT ![k] = _mark_post_run(data[i][k], res, now)]
        fresh == _refresh_availability(settled, now)
    IN  /\ Publish(fresh, now)
        /\ Leave(i, RanReturn(picked[i], res))
        /\ fails' = [fails EXCEPT ![k] = IF res.ok THEN 0 ELSE fails[k] + 1]
        /\ UNCHANGED <<now, calls, raised, probe>>

\* _execute_action: the awaited adapter method returns a TaskRunResult
HandlerReturns(i, res) ==
    /\ pc[i] = "running"
    /\ ActionKey(data[i][sel[i]]) \in Recognized
    /\ Complete(i, res)

\* A mutation of ExecuteUnknown: an unmatched action raises out of run_once.
ExecuteUnknownRaises(i) ==
    /\ pc[i] = "running"
    /\ ActionKey(data[i][sel[i]]) \notin Recognized
    /\ raised' = raised \cup {sel[i]}
    /\ Leave(i, RaisedReturn)
    /\ UNCHANGED <<file, board, now, calls, fails, probe>>

\* _execute_action line 141: no adapter for the action
ExecuteUnknown(i) ==
    /\ pc[i] = "running"
    /\ ActionKey(data[i][sel[i]]) \notin Recognized
    /\ Complete(i, UnknownResult(data[i][sel[i]]))

\* A mutation of HandlerRaises: the collection is saved on the way out, as a
\* try/finally around the dispatch would do.
HandlerRaisesSaving(i) ==
    /\ pc[i] = "running"
    /\ ActionKey(data[i][sel[i]]) \in Recognized
    /\ raised' = raised \cup {sel[i]}
    /\ file' = Some(data[i])
    /\ Leave(i, RaisedReturn)
    /\ UNCHANGED <<board, now, calls, fails, probe>>

\* _execute_action: the awaited adapter method raises; nothing catches it in
\* run_once, whose locals (the collection with the running mark) are dropped
HandlerRaises(i) ==
    /\ pc[i] = "running"
    /\ ActionKey(data[i][sel[i]]) \in Recognized
    /\ raised' = raised \cup {sel[i]}
    /\ Leave(i, RaisedReturn)
    /\ UNCHANGED <<file, board, now, calls, fails, probe>>

\* Time passes where the code can be suspended: between cycles and while a
\* handler is awaited.  The straight-line code between load and select reads
\* the clock within one second.
Tick ==
    /\ now < MaxTime
    /\ \A i \in Insts : pc[i] # "loaded"
    /\ now' = now + 1
    /\ UNCHANGED <<file, board, pc, data, preferred, picked, sel, ret, calls, fails, raised, probe>>

Next ==
    \/ \E i \in Insts, p \in PreferredIds : Load(i, p)
    \/ \E i \in Insts : SelectNone(i)
    \/ \E i \in Insts : SelectRun(i)
    \/ \E i \in Insts, res \in HandlerResults : HandlerReturns(i, res)
    \/ \E i \in Insts : ExecuteUnknown(i)
    \/ \E i \in Insts : HandlerRaises(i)
    \/ Tick

Spec == Init /\ [][Next]_vars

\* ------------------------------------------------ the pure functions alone
\* SpecPure applies _available and _pick_task_id to inputs drawn from
\* bounded sets: probe holds the arguments and, after the call, the result.

\* Every combination of the three fields _available reads, in a record that
\* has a state and in one that has none
AvailTasks ==
    {MkTask(Some("a"), Some("memory_update"), en, Bounty(Some(10), Some(1), Some(2)), Absent,
            Some([EmptyState EXCEPT !.status = st, !.next_available_at = nx])) :
        en \in {Absent, Some(TRUE), Some(FALSE)},
        st \in {Absent, Some("running"), Some("success"), Some("failed")},
        nx \in {Absent, Some(Null), Some(EmptyStr), Some(BadStr)} \cup {Some(isoformat(n)) : n \in 0..MaxTime}}
    \cup {MkTask(Some("a"), Some("memory_update"), en, Bounty(Some(10), Some(1), Some(2)), Absent, Absent) :
        en \in {Absent, Some(TRUE), Some(FALSE)}}

\* (reward, reward_weight, priority) of the ranking examples: A, B and C of
\* the selection scenarios, a task scoring 5 * 2.0, and one with no figures
Ranks ==
    {<<Some(10), Some(1), Some(1)>>, <<Some(5), Some(1), Some(5)>>, <<Some(10), Some(1), Some(5)>>,
     <<Some(5), Some(2), Some(1)>>, <<Absent, Absent, Absent>>}

\* The state of a task handed to _pick_task_id: refreshed to either flag, or missing
PickStates ==
    {Absent, Some([EmptyState EXCEPT !.available = Some(TRUE)]),
     Some([EmptyState EXCEPT !.available = Some(FALSE)])}

\* The id of the record at position k of a list under test
IdAt(k) == Some(<<"a", "b", "c", "d", "e">>[k])

\* The list under test that choice c describes: c[k] is the rank and the
\* state of the record at position k
PickList(c) ==
    [k \in DOMAIN c |->
        MkTask(IdAt(k), Some("memory_update"), Absent,
               Bounty(c[k][1][1], c[k][1][3], Absent), c[k][1][2], c[k][2])]

InitPure ==
    /\ InitCommon
    /\ file = Absent
    /\ fails = <<>>
    /\ pc = [i \in Insts |-> "off"]
    /\ \/ \E task \in AvailTasks, t \in 0..MaxTime :
            probe = [NoProbe EXCEPT !.tasks = <<task>>, !.t = t, !.step = "input"]
       \/ \E n \in 1..MaxList, p \in PreferredIds :
            \E c \in [1..n -> Ranks \X PickStates] :
                probe = [NoProbe EXCEPT !.tasks = PickList(c), !.p = p, !.step = "input"]

\* _available(task, now) on each task of the input
ProbeAvailable ==
    /\ probe.step = "input"
    /\ probe' = [probe EXCEPT !.step = "available",
                              !.flags = [k \in 1..Len(probe.tasks) |-> _available(probe.tasks[k], probe.t)]]
    /\ UNCHANGED <<file, board, now, pc, data, preferred, picked, sel, ret, calls, fails, raised>>

\* _pick_task_id(data, preferred_task_id) on the input
ProbePick ==
    /\ probe.step = "input"
    /\ probe' = [probe EXCEPT !.step = "pick", !.id = _pick_task_id(probe.tasks, probe.p)]
    /\ UNCHANGED <<file, board, now, pc, data, preferred, picked, sel, ret, calls, fails, raised>>

NextPure == ProbeAvailable \/ ProbePick

SpecPure == InitPure /\ [][NextPure]_vars

\* ------------------------------------------- refresh and projection alone
\* SpecRefresh applies _refresh_availability and _to_bounty_board (and the
\* two functions of SpecPure) to collections drawn from bounded sets.  The
\* collection the functions mutate in place is data[1]; probe.tasks keeps
\* the argument as it was before the call.

\* AvailTasks with every stored value of state.available
RefreshTasks ==
    {IF task.state = Absent \/ a = Absent THEN task
     ELSE [task EXCEPT !.state = Some([task.state[1] EXCEPT !.available = a])] :
        task \in AvailTasks, a \in {Absent, Some(TRUE), Some(FALSE)}}

InitRefresh ==
    /\ InitCommon
    /\ file = Absent
    /\ fails = <<>>
    /\ pc = [i \in Insts |-> "off"]
    /\ \E task \in RefreshTasks, t \in 0..MaxTime :
        \E tasks \in {<<task>>, <<task, TaskMem>>, <<TaskStuck, task>>} :
            probe = [NoProbe EXCEPT !.tasks = tasks, !.t = t, !.step = "input"]

\* _refresh_availability(data) on the input, utc_now() = probe.t
ProbeRefresh ==
    /\ probe.step = "input"
    /\ probe' = [probe EXCEPT !.step = "refresh"]
    /\ data' = [data EXCEPT ![1] = _refresh_availability(probe.tasks, probe.t)]
    /\ UNCHANGED <<file, board, now, pc, preferred, picked, sel, ret, calls, fails, raised>>

\* _refresh_availability(data) once more on the refreshed collection, at the same time
ProbeRefreshAgain ==
    /\ probe.step = "refresh"
    /\ probe' = [probe EXCEPT !.step = "refresh2"]
    /\ data' = [data EXCEPT ![1] = _refresh_availability(data[1], probe.t)]
    /\ UNCHANGED <<file, board, now, pc, preferred, picked, sel, ret, calls, fails, raised>>

\* _to_bounty_board(data) on the input: the snapshot it returns (kept in
\* board) and the collection after the call
ProbeBoard ==
    /\ probe.step = "input"
    /\ probe' = [probe EXCEPT !.step = "board"]
    /\ board' = Some(_to_bounty_board(probe.tasks, probe.t))
    /\ data' = [data EXCEPT ![1] = _refresh_availability(probe.tasks, probe.t)]
    /\ UNCHANGED <<file, now, pc, preferred, picked, sel, ret, calls, fails, raised>>

NextRefresh == ProbeAvailable \/ ProbePick \/ ProbeRefresh \/ ProbeRefreshAgain \/ ProbeBoard

SpecRefresh == InitRefresh /\ [][NextRefresh]_vars

\* ------------------------------------------------------- continuous mode
\* SpecForever is run_forever on instance 1: run_once() without a preferred
\* id, then asyncio.sleep(interval_sec), for ever.  interval_sec is one
\* second of the clock.  In pc, "call" is the top of the loop body, "idle"
\* the point where run_once has just returned or raised into run_forever,
\* "sleeping" the sleep, and "exited" the end of run_forever.  The task file
\* may be missing, and may be created or removed between cycles.

\* run_once left by the FileNotFoundError of _load
FileNotFound == [kind |-> "file_not_found", task_id |-> Absent, ok |-> Absent, details |-> Absent]

ForeverPool == {TaskMem, TaskReload, TaskDance, TaskNoId, TaskEmptyId}

\* The task files of the continuous runs: one or two records of ForeverPool
ForeverFiles == {<<t>> : t \in ForeverPool} \cup {<<t, u>> : t \in ForeverPool, u \in ForeverPool}

InitForever ==
    /\ InitCommon
    /\ probe = NoProbe
    /\ \/ file = Absent /\ fails = <<>>
       \/ \E f \in ForeverFiles :
            /\ file = Some(f)
            /\ fails = [k \in 1..Len(f) |-> Failures(f[k])]
    /\ pc = [i \in Insts |-> IF i = 1 THEN "call" ELSE "off"]

\* A mutation of LoadMissing: a missing task file is taken for an empty task
\* list, and the cycle publishes and saves it.
LoadMissingCreates(i) ==
    /\ pc[i] = "call"
    /\ file = Absent
    /\ Publish(<<>>, now)
    /\ Leave(i, NoTaskReturn)
    /\ calls' = [calls EXCEPT ![i] = 0]
    /\ UNCHANGED <<now, fails, raised, probe>>

\* run_forever line 203 into run_once line 178, the task file missing:
\* _load raises FileNotFoundError, which nothing in run_once catches
LoadMissing(i) ==
    /\ pc[i] = "call"
    /\ file = Absent
    /\ Leave(i, FileNotFound)
    /\ calls' = [calls EXCEPT ![i] = 0]
    /\ UNCHANGED <<file, board, now, fails, raised, probe>>

\* run_forever line 203 into run_once lines 178-179, the task file present
ForeverLoad(i) ==
    /\ pc[i] = "call"
    /\ file # Absent
    /\ \A k \in 1..Len(file[1]) : Failures(file[1][k]) < MaxFailures
    /\ pc' = [pc EXCEPT ![i] = "loaded"]
    /\ data' = [data EXCEPT ![i] = _refresh_availability(file[1], now)]
    /\ preferred' = [preferred EXCEPT ![i] = Absent]
    /\ ret' = [ret EXCEPT ![i] = NoReturn]
    /\ calls' = [calls EXCEPT ![i] = 0]
    /\ UNCHANGED <<file, board, now, picked, sel, fails, raised, probe>>

\* A mutation of ForeverSleep: the loop calls run_once again without sleeping.
ForeverNoSleep(i) ==
    /\ pc[i] = "idle"
    /\ ret[i].kind \in {"ran", "no_available_task"}
    /\ pc' = [pc EXCEPT ![i] = "call"]
    /\ UNCHANGED <<file, board, now, data, preferred, picked, sel, ret, calls, fails, raised, probe>>

\* run_forever lines 204-206: run_once has returned; log, then sleep
ForeverSleep(i) ==
    /\ pc[i] = "idle"
    /\ ret[i].kind \in {"ran", "no_available_task"}
    /\ pc' = [pc EXCEPT ![i] = "sleeping"]
    /\ UNCHANGED <<file, board, now, data, preferred, picked, sel, ret, calls, fails, raised, probe>>

\* run_forever line 203: run_once has raised; the while loop has no
\* try/except, so the exception ends run_forever
ForeverRaise(i) ==
    /\ pc[i] = "idle"
    /\ ret[i].kind \in {"raised", "file_not_found"}
    /\ pc' = [pc EXCEPT ![i] = "exited"]
    /\ UNCHANGED <<file, board, now, data, preferred, picked, sel, ret, calls, fails, raised, probe>>

\* Tick in continuous mode: a second passes, and a sleep that was under way
\* is over (the loop may call run_once from then on)
TickForever ==
    /\ now < MaxTime
    /\ \A i \in Insts : pc[i] # "loaded"
    /\ now' = now + 1
    /\ pc' = [i \in Insts |-> IF pc[i] = "sleeping" THEN "call" ELSE pc[i]]
    /\ UNCHANGED <<file, board, data, preferred, picked, sel, ret, calls, fails, raised, probe>>

\* The task file is created while no cycle is under way (path.exists() of
\* _load becomes true)
FileAppears(f) ==
    /\ file = Absent
    /\ \A i \in Insts : pc[i] \notin {"loaded", "running"}
    /\ file' = Some(f)
    /\ fails' = [k \in 1..Len(f) |-> Failures(f[k])]
    /\ UNCHANGED <<board, now, pc, data, preferred, picked, sel, ret, calls, raised, probe>>

\* The task file is removed while no cycle is under way
FileVanishes ==
    /\ file # Absent
    /\ \A i \in Insts : pc[i] \notin {"loaded", "running"}
    /\ file' = Absent
    /\ fails' = <<>>
    /\ raised' = {}
    /\ UNCHANGED <<board, now, pc, data, preferred, picked, sel, ret, calls, probe>>

NextForever ==
    \/ \E i \in Insts : LoadMissing(i)
    \/ \E i \in Insts : ForeverLoad(i)
    \/ \E i \in Insts : SelectNone(i)
    \/ \E i \in Insts : SelectRun(i)
    \/ \E i \in Insts, res \in HandlerResults : HandlerReturns(i, res)
    \/ \E i \in Insts : ExecuteUnknown(i)
    \/ \E i \in Insts : HandlerRaises(i)
    \/ \E i \in Insts : ForeverSleep(i)
    \/ \E i \in Insts : ForeverRaise(i)
    \/ TickForever
    \/ \E f \in ForeverFiles : FileAppears(f)
    \/ FileVanishes

SpecForever == InitForever /\ [][NextForever]_vars

\* ------------------------------------------------- two service instances
\* SpecTwo is run_once called by one or by two service instances (processes)
\* that were started on the same task file and board file: the steps of
\* run_once, interleaved, all within one second of the clock.  Nothing in
\* _load or _save locks the files.

\* The task files of the two-instance runs
TwoFiles == {<<TaskMem, TaskBadStamp>>, <<TaskMem, TaskDance>>}

\* The preferred_task_id arguments of the two-instance runs
TwoPreferred == {Absent, Some("b")}

InitTwo ==
    /\ InitCommon
    /\ probe = NoProbe
    /\ \E f \in TwoFiles :
        /\ file = Some(f)
        /\ fails = [k \in 1..Len(f) |-> Failures(f[k])]
    /\ \E second \in {"off", "idle"} :
        pc = [i \in Insts |-> IF i = 1 THEN "idle" ELSE second]

NextTwo ==
    \/ \E i \in Insts, p \in TwoPreferred : Load(i, p)
    \/ \E i \in Insts : SelectNone(i)
    \/ \E i \in Insts : SelectRun(i)
    \/ \E i \in Insts, res \in HandlerResults : HandlerReturns(i, res)
    \/ \E i \in Insts : ExecuteUnknown(i)
    \/ \E i \in Insts : HandlerRaises(i)

SpecTwo == InitTwo /\ [][NextTwo]_vars

\* ------------------------------------------------ run_once step by step
\* SpecSteps is run_once of instance 1 with one action per statement, for
\* the order of the statements inside a cycle.  The positions of pc are
\* named after the statement that was executed last.

StepsFiles == {<<TaskMem>>, <<TaskMem, TaskDance>>, <<TaskOff, TaskReload>>, <<TaskStuck>>}

InitSteps ==
    /\ InitCommon
    /\ probe = NoProbe
    /\ \E f \in StepsFiles :
        /\ file = Some(f)
        /\ fails = [k \in 1..Len(f) |-> Failures(f[k])]
    /\ pc = [i \in Insts |-> IF i = 1 THEN "idle" ELSE "off"]

\* line 178: data = self._load()
StepLoad(i, p) ==
    /\ pc[i] = "idle"
    /\ file # Absent
    /\ \A k \in 1..Len(file[1]) : Failures(file[1][k]) < MaxFailures /\ fails[k] < MaxFailures
    /\ pc' = [pc EXCEPT ![i] = "s_loaded"]
    /\ data' = [data EXCEPT ![i] = file[1]]
    /\ preferred' = [preferred EXCEPT ![i] = p]
    /\ ret' = [ret EXCEPT ![i] = NoReturn]
    /\ calls' = [calls EXCEPT ![i] = 0]
    /\ UNCHANGED <<file, board, now, picked, sel, fails, raised, probe>>

\* line 179: self._refresh_availability(data)
StepRefresh(i) ==
    /\ pc[i] = "s_loaded"
    /\ pc' = [pc EXCEPT ![i] = "s_refreshed"]
    /\ data' = [data EXCEPT ![i] = _refresh_availability(data[i], now)]
    /\ UNCHANGED <<file, board, now, preferred, picked, sel, ret, calls, fails, raised, probe>>

\* lines 181-182: task_id = self._pick_task_id(...); if not task_id
StepSelectNone(i) ==
    /\ pc[i] = "s_refreshed"
    /\ ~Truthy(_pick_task_id(data[i], preferred[i]))
    /\ pc' = [pc EXCEPT ![i] = "s_ready"]
    /\ UNCHANGED <<file, board, now, data, preferred, picked, sel, ret, calls, fails, raised, probe>>

\* lines 181 and 187: a task id selected and resolved to the first record with it
StepSelect(i) ==
    LET task_id == _pick_task_id(data[i], preferred[i])
    IN  /\ pc[i] = "s_refreshed"
        /\ Truthy(task_id)
        /\ picked' = [picked EXCEPT ![i] = task_id]
        /\ sel' = [sel EXCEPT ![i] = FirstWithId(data[i], task_id)]
        /\ pc' = [pc EXCEPT ![i] = "s_selected"]
        /\ UNCHANGED <<file, board, now, data, preferred, ret, calls, fails, raised, probe>>

\* A mutation of StepMark: the record is handed on without the running mark.
StepMarkForgotten(i) ==
    /\ pc[i] = "s_selected"
    /\ pc' = [pc EXCEPT ![i] = "s_marked"]
    /\ UNCHANGED <<file, board, now, data, preferred, picked, sel, ret, calls, fails, raised, probe>>

\* lines 188-191: the record marked running
StepMark(i) ==
    /\ pc[i] = "s_selected"
    /\ data' = [data EXCEPT ![i] = [data[i] EXCEPT ![sel[i]] = MarkRunning(data[i][sel[i]], now)]]
    /\ pc' = [pc EXCEPT ![i] = "s_marked"]
    /\ UNCHANGED <<file, board, now, preferred, picked, sel, ret, calls, fails, raised, probe>>

\* line 193: _execute_action(task) is called; an adapter method is awaited
\* when the action is recognized
StepDispatch(i) ==
    /\ pc[i] = "s_marked"
    /\ calls' = [calls EXCEPT ![i] = IF ActionKey(data[i][sel[i]]) \in Recognized THEN 1 ELSE 0]
    /\ pc' = [pc EXCEPT ![i] = "s_dispatched"]
    /\ UNCHANGED <<file, board, now, data, preferred, picked, sel, ret, fails, raised, probe>>

\* line 193: _execute_action returns res (kept in ret until run_once returns it)
StepResult(i, res) ==
    /\ pc[i] = "s_dispatched"
    /\ IF ActionKey(data[i][sel[i]]) \in Recognized THEN res \in HandlerResults
       ELSE res = UnknownResult(data[i][sel[i]])
    /\ ret' = [ret EXCEPT ![i] = RanReturn(picked[i], res)]
    /\ pc' = [pc EXCEPT ![i] = "s_returned"]
    /\ UNCHANGED <<file, board, now, data, preferred, picked, sel, calls, fails, raised, probe>>

\* line 193: the awaited adapter method raises
StepRaises(i) ==
    /\ pc[i] = "s_dispatched"
    /\ ActionKey(data[i][sel[i]]) \in Recognized
    /\ raised' = raised \cup {sel[i]}
    /\ Leave(i, RaisedReturn)
    /\ UNCHANGED <<file, board, now, calls, fails, probe>>

\* line 194: self._mark_post_run(task, result)
StepSettle(i) ==
    LET k == sel[i]
        res == [ok |-> ret[i].ok[1], details |-> ret[i].details[1]]
    IN  /\ pc[i] = "s_returned"
        /\ data' = [data EXCEPT ![i] = [data[i] EXCEPT ![k] = _mark_post_run(data[i][k], res, now)]]
        /\ fails' = [fails EXCEPT ![k] = IF res.ok THEN 0 ELSE fails[k] + 1]
        /\ pc' = [pc EXCEPT ![i] = "s_settled"]
        /\ UNCHANGED <<file, board, now, preferred, picked, sel, ret, calls, raised, probe>>

\* line 195: self._refresh_availability(data)
StepRefreshAfter(i) ==
    /\ pc[i] = "s_settled"
    /\ data' = [data EXCEPT ![i] = _refresh_availability(data[i], now)]
    /\ pc' = [pc EXCEPT ![i] = "s_ready"]
    /\ UNCHANGED <<file, board, now, preferred, picked, sel, ret, calls, fails, raised, probe>>

\* lines 183 and 196: self._write_bounty_board(data), whose projection
\* refreshes data
StepWriteBoard(i) ==
    /\ pc[i] = "s_ready"
    /\ board' = Some(_to_bounty_board(data[i], now))
    /\ data' = [data EXCEPT ![i] = _refresh_availability(data[i], now)]
    /\ pc' = [pc EXCEPT ![i] = "s_published"]
    /\ UNCHANGED <<file, now, preferred, picked, sel, ret, calls, fails, raised, probe>>

\* lines 184-185 and 197-199: self._save(data); return
StepSave(i) ==
    /\ pc[i] = "s_published"
    /\ file' = Some(data[i])
    /\ Leave(i, IF picked[i] = Absent THEN NoTaskReturn ELSE ret[i])
    /\ UNCHANGED <<board, now, calls, fails, raised, probe>>

\* Tick between cycles and while the handler is awaited
TickSteps ==
    /\ now < MaxTime
    /\ \A i \in Insts : pc[i] \in {"off", "idle", "s_dispatched"}
    /\ now' = now + 1
    /\ UNCHANGED <<file, board, pc, data, preferred, picked, sel, ret, calls, fails, raised, probe>>

NextSteps ==
    \/ \E i \in Insts, p \in TwoPreferred : StepLoad(i, p)
    \/ \E i \in Insts : StepRefresh(i)
    \/ \E i \in Insts : StepSelectNone(i)
    \/ \E i \in Insts : StepSelect(i)
    \/ \E i \in Insts : StepMark(i)
    \/ \E i \in Insts : StepDispatch(i)
    \/ \E i \in Insts, res \in HandlerResults \cup {UnknownResult(TaskDance)} : StepResult(i, res)
    \/ \E i \in Insts : StepRaises(i)
    \/ \E i \in Insts : StepSettle(i)
    \/ \E i \in Insts : StepRefreshAfter(i)
    \/ \E i \in Insts : StepWriteBoard(i)
    \/ \E i \in Insts : StepSave(i)
    \/ TickSteps

SpecSteps == InitSteps /\ [][NextSteps]_vars

\* ------------------------------------------- run_forever, handlers returning
\* SpecLive is run_forever of instance 1 on a task file that stays in place,
\* with handlers that always return and a clock that keeps advancing.  Times
\* from MaxTime on are represented by MaxTime, and a handler fails only while
\* the failure counter of its record stays below MaxFailures.

LiveFiles ==
    {<<TaskMem>>, <<TaskMem, TaskReload>>, <<TaskReload, TaskMem>>, <<TaskMem, TaskClaim>>,
     <<TaskOff, TaskReload>>, <<TaskStuck, TaskBadStamp>>, <<TaskOffFree, TaskMem>>}

InitLive ==
    /\ InitCommon
    /\ probe = NoProbe
    /\ \E f \in LiveFiles :
        /\ file = Some(f)
        /\ fails = [k \in 1..Len(f) |-> Failures(f[k])]
    /\ pc = [i \in Insts |-> IF i = 1 THEN "call" ELSE "off"]

\* run_once lines 193-199: the awaited adapter method returns a
\* TaskRunResult, the record is settled and the collection refreshed,
\* published and saved (HandlerReturns, with the collections computed once)
LiveReturns(i, res) ==
    /\ pc[i] = "running"
    /\ ActionKey(data[i][sel[i]]) \in Recognized
    /\ res.ok \/ Failures(data[i][sel[i]]) + 1 < MaxFailures
    /\ \E settled \in {[data[i] EXCEPT ![sel[i]] = _mark_post_run(data[i][sel[i]], res, now)]} :
        \E fresh \in {_refresh_availability(settled, now)} :
            /\ Publish(fresh, now)
            /\ Leave(i, RanReturn(picked[i], res))
            /\ fails' = [fails EXCEPT ![sel[i]] = IF res.ok THEN 0 ELSE fails[sel[i]] + 1]
            /\ UNCHANGED <<now, calls, raised, probe>>

\* A second passes (the clock stays at MaxTime once it is there), and a
\* sleep that was under way is over
TickLive ==
    /\ \A i \in Insts : pc[i] # "loaded"
    /\ now < MaxTime \/ \E i \in Insts : pc[i] = "sleeping"
    /\ now' = IF now < MaxTime THEN now + 1 ELSE now
    /\ pc' = [i \in Insts |-> IF pc[i] = "sleeping" THEN "call" ELSE pc[i]]
    /\ UNCHANGED <<file, board, data, preferred, picked, sel, ret, calls, fails, raised, probe>>

NextLive ==
    \/ ForeverLoad(1)
    \/ SelectNone(1)
    \/ SelectRun(1)
    \/ \E res \in HandlerResults : LiveReturns(1, res)
    \/ ForeverSleep(1)
    \/ TickLive

\* The event loop runs every step that is ready, the handlers return and
\* the clock advances
SpecLive ==
    /\ InitLive
    /\ [][NextLive]_vars
    /\ WF_vars(ForeverLoad(1))
    /\ WF_vars(SelectNone(1))
    /\ WF_vars(SelectRun(1))
    /\ WF_vars(\E res \in HandlerResults : LiveReturns(1, res))
    /\ WF_vars(ForeverSleep(1))
    /\ WF_vars(TickLive)

\* ================================================================= claims

\* The other fields of a task, changed: state.available, last_result,
\* consecutive_failures, the bounty and the id
Vary(task, v) ==
    [task EXCEPT !.id = v.id, !.bounty = v.bounty,
                 !.state = IF task.state = Absent /\ v.available = Absent THEN Absent
                           ELSE Some([StateOf(task) EXCEPT !.available = v.available,
                                                           !.last_result = v.last_result,
                                                           !.consecutive_failures = v.failures])]

Variations ==
    [id : {Some("a"), Absent}, bounty : {Bounty(Some(10), Some(1), Some(2)), Bounty(Absent, Absent, Absent)},
     available : {Absent, Some(TRUE), Some(FALSE)}, last_result : {Absent, Some("not configured")},
     failures : {Absent, Some(3)}]

\* runtime.enabled is not false, state.status is not "running", and
\* state.next_available_at is not a valid timestamp strictly greater than t
EligibleAt(task, t) ==
    /\ task.runtime.enabled # Some(FALSE)
    /\ ~(task.state # Absent /\ task.state[1].status = Some("running"))
    /\ ~(/\ task.state # Absent
         /\ task.state[1].next_available_at # Absent
         /\ task.state[1].next_available_at[1].k = "iso"
         /\ task.state[1].next_available_at[1].t > t)

\* C1: for every task and every time, _available(task, now) is true exactly
\* when runtime.enabled is not false, state.status is not "running" and
\* state.next_available_at is not a valid timestamp strictly greater than
\* now; changing state.available, last_result, consecutive_failures, the
\* bounty or the id of the task does not change the result.
C1_AvailabilityPure ==
    probe.step = "available" =>
        \A k \in 1..Len(probe.tasks) :
            /\ probe.flags[k] = EligibleAt(probe.tasks[k], probe.t)
            /\ \A v \in Variations : _available(Vary(probe.tasks[k], v), probe.t) = probe.flags[k]

\* C1 witness: a task whose next_available_at is exactly now was computed available.
C1_Witness ==
    /\ probe.step = "available"
    /\ Len(probe.tasks) = 1
    /\ probe.tasks[1].state # Absent
    /\ probe.tasks[1].state[1].next_available_at = Some(isoformat(probe.t))
    /\ probe.t > 0
    /\ probe.flags[1] = TRUE

\* The task file as last written or found (the empty list when it is missing)
Stored == Get(file, <<>>)

\* Record k of the task file was settled by run_once at time T with a
\* cooldown c > 0, and is enabled
SettledWithCooldown(k, T, c) ==
    /\ Stored[k].runtime.enabled # Some(FALSE)
    /\ Stored[k].bounty.cooldown_sec = Some(c)
    /\ c > 0
    /\ Stored[k].state # Absent
    /\ Stored[k].state[1].status \in {Some("success"), Some("failed")}
    /\ Stored[k].state[1].last_completed_at = Some(isoformat(T))

\* C2: an enabled task with cooldown c > 0 that run_once settled at time T
\* is unavailable at every t with T <= t < T + c and available at T + c, and
\* no cycle whose refresh happens before T + c marks it running again (the
\* refresh of a cycle happens at the time it records in last_started_at).
C2_CooldownGating ==
    \A k \in 1..Len(Stored), T \in 0..MaxTime, c \in 1..2 :
        SettledWithCooldown(k, T, c) =>
            /\ \A t \in T..(T + c) : _available(Stored[k], t) = (t = T + c)
            /\ \A i \in Insts :
                (pc[i] = "running" /\ sel[i] = k) =>
                    StateOf(data[i][k]).last_started_at[1].t >= T + c

\* C3: no cycle marks as running or dispatches a task record whose
\* runtime.enabled is false.
C3_DisabledNeverRuns ==
    \A i \in Insts :
        pc[i] = "running" => data[i][sel[i]].runtime.enabled # Some(FALSE)

\* state.available of the task is true
Flagged(task) == task.state # Absent /\ task.state[1].available = Some(TRUE)

\* bounty.reward * q_learning.reward_weight, with the defaults 0 and 1.0
Score(task) ==
    (IF task.bounty.reward = Absent THEN 0 ELSE task.bounty.reward[1])
    * (IF task.q_learning.reward_weight = Absent THEN 1 ELSE task.q_learning.reward_weight[1])

Priority(task) == IF task.bounty.priority = Absent THEN 0 ELSE task.bounty.priority[1]

\* a ranks strictly above b: higher score, or equal score and higher priority
Outranks(a, b) ==
    \/ Score(a) > Score(b)
    \/ Score(a) = Score(b) /\ Priority(a) > Priority(b)

\* C4: when a preferred id is given (a non-empty string), the cycle selects
\* that id if and only if some record has that id and a freshly refreshed
\* state.available that is true, whatever its rank; otherwise nothing is
\* selected, no handler is called and run_once returns ran=false with reason
\* no_available_task, even when other tasks are available.
C4_OverridePrecedence ==
    [][\A i \in Insts :
        (pc[i] = "loaded" /\ pc'[i] # "loaded" /\ Truthy(preferred[i])) =>
            /\ \A k \in 1..Len(data[i]) :
                data[i][k].state[1].available = Some(EligibleAt(Stored[k], now))
            /\ IF \E k \in 1..Len(data[i]) : data[i][k].id = preferred[i] /\ Flagged(data[i][k])
               THEN /\ pc'[i] = "running"
                    /\ picked'[i] = preferred[i]
                    /\ data'[i][sel'[i]].id = preferred[i]
               ELSE /\ pc'[i] = "idle"
                    /\ ret'[i] = NoTaskReturn
                    /\ calls'[i] = 0]_vars

\* C4 witness: the preferred task is running although an available task outranks it.
C4_Witness ==
    \E i \in Insts :
        /\ pc[i] = "running"
        /\ picked[i] = preferred[i]
        /\ \E j \in 1..Len(data[i]) :
            /\ Flagged(data[i][j])
            /\ data[i][j].id # preferred[i]
            /\ Outranks(data[i][j], data[i][sel[i]])

\* C5: with no preferred id, _pick_task_id returns the id of an available
\* task that no available task outranks on (score, priority); with no
\* available task it returns none.
C5_GreedySelection ==
    (probe.step = "pick" /\ ~Truthy(probe.p)) =>
        IF \E k \in 1..Len(probe.tasks) : Flagged(probe.tasks[k])
        THEN \E k \in 1..Len(probe.tasks) :
                /\ Flagged(probe.tasks[k])
                /\ probe.id = probe.tasks[k].id
                /\ \A j \in 1..Len(probe.tasks) :
                    Flagged(probe.tasks[j]) => ~Outranks(probe.tasks[j], probe.tasks[k])
        ELSE probe.id = Absent

\* C5 witness: the selected task has the higher score and the lower priority
\* of two available tasks, and an unavailable task outranks both.
C5_Witness ==
    /\ probe.step = "pick"
    /\ probe.p = Absent
    /\ \E k, j, u \in 1..Len(probe.tasks) :
        /\ probe.id = probe.tasks[k].id
        /\ Flagged(probe.tasks[k]) /\ Flagged(probe.tasks[j])
        /\ Score(probe.tasks[k]) > Score(probe.tasks[j])
        /\ Priority(probe.tasks[k]) < Priority(probe.tasks[j])
        /\ ~Flagged(probe.tasks[u])
        /\ Outranks(probe.tasks[u], probe.tasks[k])

\* The positions of the available tasks that no available task outranks
TopRanked(tasks) ==
    {k \in 1..Len(tasks) :
        /\ Flagged(tasks[k])
        /\ \A j \in 1..Len(tasks) : Flagged(tasks[j]) => ~Outranks(tasks[j], tasks[k])}

\* C6: when several available tasks share the top score and priority,
\* greedy selection returns the id of the first of them in list order.
C6_StableTieBreak ==
    (probe.step = "pick" /\ ~Truthy(probe.p) /\ Cardinality(TopRanked(probe.tasks)) >= 2) =>
        \E k \in TopRanked(probe.tasks) :
            /\ \A j \in TopRanked(probe.tasks) : k <= j
            /\ probe.id = probe.tasks[k].id

\* C6 witness: the second and third task tie at the top, the first task is
\* available and ranks lower, and the second task is selected.
C6_Witness ==
    /\ probe.step = "pick"
    /\ probe.p = Absent
    /\ TopRanked(probe.tasks) = {2, 3}
    /\ Flagged(probe.tasks[1])
    /\ probe.id = probe.tasks[2].id

\* state.status of record k of the task file
StoredStatus(k) == IF Stored[k].state = Absent THEN Absent ELSE Stored[k].state[1].status

\* C7 as claimed: once the handler of a record has raised, the record's
\* status in the task file is "running" and no later cycle runs the record.
C7_StuckRunning ==
    \A k \in raised :
        /\ StoredStatus(k) = Some("running")
        /\ \A i \in Insts : ~(pc[i] = "running" /\ sel[i] = k)

\* C7 amended: when the handler of a recognized action raises, the error
\* leaves run_once and nothing is written: the record is marked running only
\* in the in-memory collection the cycle abandons, and the task file and the
\* bounty board stay as they were before the cycle.
C7_RaiseLeavesNoTrace ==
    [][\A i \in Insts :
        (pc[i] = "running" /\ ret'[i].kind = "raised") =>
            /\ data[i][sel[i]].state[1].status = Some("running")
            /\ pc'[i] = "idle"
            /\ file' = file
            /\ board' = board]_vars

\* C7 witness: a record whose handler raised in an earlier cycle has been
\* selected again and is running.
C7_Witness ==
    \E i \in Insts :
        /\ pc[i] = "running"
        /\ sel[i] \in raised
        /\ StoredStatus(sel[i]) # Some("running")

\* The task with state.available left out (a task without state has no fields)
SansAvailable(task) ==
    [task EXCEPT !.state = Some([StateOf(task) EXCEPT !.available = Absent])]

\* C8: a cycle that selects nothing writes a bounty board whose updated_at is
\* the current time and a task file in which every task has its refreshed
\* available and every other field as loaded; it returns ran=false with
\* reason no_available_task and calls no handler.
C8_EmptyCycle ==
    [][\A i \in Insts :
        (pc[i] = "loaded" /\ pc'[i] = "idle") =>
            /\ ret'[i] = NoTaskReturn
            /\ calls'[i] = 0
            /\ board' # Absent
            /\ board'[1].updated_at = isoformat(now)
            /\ file' # Absent
            /\ Len(file'[1]) = Len(Stored)
            /\ \A k \in 1..Len(Stored) :
                /\ SansAvailable(file'[1][k]) = SansAvailable(Stored[k])
                /\ file'[1][k].state[1].available = Some(EligibleAt(Stored[k], now))]_vars

\* C8 witness: a cycle found nothing to run because the only task is in its
\* cooldown, and the board carries the time of that cycle.
C8_Witness ==
    \E i \in Insts :
        /\ pc[i] = "idle"
        /\ ret[i] = NoTaskReturn
        /\ now > 0
        /\ board # Absent
        /\ board[1].updated_at = isoformat(now)
        /\ Len(Stored) = 1
        /\ StoredStatus(1) = Some("success")
        /\ Stored[1].state[1].next_available_at[1].t > now

\* C9: a cycle that ran a record returns ran=true with the id it selected
\* and the ok and details of the result, and persists for that record status
\* "success" if ok and "failed" otherwise, and last_result = details.
C9_SettleOutcome ==
    [][\A i \in Insts :
        (pc[i] = "running" /\ ret'[i].kind = "ran") =>
            LET k == sel[i]
                st == file'[1][k].state[1]
            IN  /\ ret'[i].task_id = picked[i]
                /\ ret'[i].task_id = data[i][k].id
                /\ ret'[i].ok \in {Some(TRUE), Some(FALSE)}
                /\ ret'[i].details # Absent
                /\ (calls[i] = 1) =>
                        [ok |-> ret'[i].ok[1], details |-> ret'[i].details[1]] \in HandlerResults
                /\ (calls[i] = 0) => ret'[i].ok = Some(FALSE)
                /\ st.status = Some(IF ret'[i].ok[1] THEN "success" ELSE "failed")
                /\ st.last_result = ret'[i].details]_vars

\* C9 witness: a handler returned a failure and the cycle has persisted it.
C9_Witness ==
    \E i \in Insts, k \in 1..Len(Stored) :
        /\ pc[i] = "idle"
        /\ ret[i].kind = "ran"
        /\ calls[i] = 1
        /\ ret[i].ok = Some(FALSE)
        /\ ret[i].task_id = Stored[k].id
        /\ StoredStatus(k) = Some("failed")
        /\ Stored[k].state[1].last_result = ret[i].details

\* C10: a settle sets consecutive_failures to 0 on success and to the
\* previous value plus 1 (absent counted as 0) on failure and leaves
\* runtime.enabled alone; so the counter of every record is the number of
\* failed runs since its last successful run (fails) and is never negative.
C10_FailureCounter ==
    /\ [](\A k \in 1..Len(Stored) : Failures(Stored[k]) = fails[k] /\ fails[k] >= 0)
    /\ [][\A i \in Insts :
            (pc[i] = "running" /\ ret'[i].kind = "ran") =>
                LET k == sel[i]
                    before == IF Stored[k].state = Absent \/ Stored[k].state[1].consecutive_failures = Absent
                              THEN 0 ELSE Stored[k].state[1].consecutive_failures[1]
                IN  /\ file'[1][k].state[1].consecutive_failures =
                            Some(IF ret'[i].ok[1] THEN 0 ELSE before + 1)
                    /\ file'[1][k].runtime = Stored[k].runtime]_vars

\* C10 witness: a record has failed until its counter reached
\* MaxFailures, and is still enabled and eligible.
C10_Witness ==
    \E k \in 1..Len(Stored) :
        /\ fails[k] = MaxFailures
        /\ StoredStatus(k) = Some("failed")
        /\ Stored[k].state[1].last_completed_at # Absent
        /\ Stored[k].state[1].consecutive_failures = Some(MaxFailures)
        /\ Stored[k].runtime.enabled # Some(FALSE)
        /\ EligibleAt(Stored[k], now)

\* bounty.cooldown_sec of a task, 0 when it is not given
CooldownOf(task) == IF task.bounty.cooldown_sec = Absent THEN 0 ELSE task.bounty.cooldown_sec[1]

\* C11: a cycle that settles a record at time now persists next_available_at
\* = now + cooldown_sec when cooldown_sec > 0 and null when it is 0, whether
\* the run succeeded or failed; with cooldown 0 the record is persisted
\* with available = true by the same cycle.
C11_CooldownBookkeeping ==
    [][\A i \in Insts :
        (pc[i] = "running" /\ ret'[i].kind = "ran") =>
            LET k == sel[i]
                c == CooldownOf(Stored[k])
                st == file'[1][k].state[1]
            IN  /\ st.next_available_at =
                    Some(IF c > 0 THEN [k |-> "iso", t |-> now + c] ELSE [k |-> "null", t |-> 0])
                /\ (c = 0) => st.available = Some(TRUE)]_vars

\* C11 without its last clause
C11_NextAvailableOnly ==
    [][\A i \in Insts :
        (pc[i] = "running" /\ ret'[i].kind = "ran") =>
            LET k == sel[i]
                c == CooldownOf(Stored[k])
                st == file'[1][k].state[1]
            IN  st.next_available_at =
                    Some(IF c > 0 THEN [k |-> "iso", t |-> now + c] ELSE [k |-> "null", t |-> 0])]_vars

\* A step of instance i that completes a cycle: run_once returns
CycleDone(i) == pc[i] \in {"loaded", "running"} /\ ret'[i].kind \in {"no_available_task", "ran"}

\* C12: when a cycle completes, whether or not it ran a task, the task file
\* and the bounty board it wrote agree on available for every task, and that
\* value is the eligibility of the task on its persisted enabled, status and
\* next_available_at at the time of the cycle's last refresh; a record the
\* cycle settled with cooldown > 0 is unavailable in both.
C12_AvailabilityFresh ==
    [][\A i \in Insts :
        CycleDone(i) =>
            /\ file' # Absent /\ board' # Absent
            /\ Len(board'[1].tasks) = Len(file'[1])
            /\ \A k \in 1..Len(file'[1]) :
                /\ file'[1][k].state # Absent
                /\ file'[1][k].state[1].available = Some(board'[1].tasks[k].available)
                /\ board'[1].tasks[k].available = EligibleAt(file'[1][k], now)
            /\ (ret'[i].kind = "ran" /\ CooldownOf(Stored[sel[i]]) > 0) =>
                /\ file'[1][sel[i]].state[1].available = Some(FALSE)
                /\ board'[1].tasks[sel[i]].available = FALSE]_vars

\* C12 witness: the last cycle settled the first record with a cooldown and
\* left it unavailable in the file and on the board, next to a record that
\* both show available.
C12_Witness ==
    /\ board # Absent
    /\ Len(Stored) = 2
    /\ \E i \in Insts : pc[i] = "idle" /\ ret[i].kind = "ran"
    /\ StoredStatus(1) = Some("success")
    /\ Stored[1].state[1].last_completed_at = Some([k |-> "iso", t |-> now])
    /\ Stored[1].state[1].next_available_at[1].t > now
    /\ Stored[1].state[1].available = Some(FALSE)
    /\ board[1].tasks[1].available = FALSE
    /\ Stored[2].state[1].available = Some(TRUE)
    /\ board[1].tasks[2].available = TRUE

\* C13: one run_once makes at most one handler call, and a cycle that runs a
\* record persists every other record with its status, last_started_at,
\* last_completed_at, next_available_at, last_result and
\* consecutive_failures as they were in the file; only available may differ.
C13_OneTaskPerCycle ==
    /\ [](\A i \in Insts : calls[i] \in {0, 1})
    /\ [][\A i \in Insts :
            (pc[i] = "running" /\ ret'[i].kind = "ran") =>
                /\ Len(file'[1]) = Len(Stored)
                /\ \A j \in 1..Len(Stored) :
                    (j # sel[i]) => SansAvailable(file'[1][j]) = SansAvailable(Stored[j])]_vars

\* C13 witness: a cycle ran the first of two records, and the second, which
\* failed once before, still carries its old status, counter and timestamps.
C13_Witness ==
    /\ Len(Stored) = 2
    /\ \E i \in Insts : pc[i] = "idle" /\ ret[i].kind = "ran" /\ calls[i] = 1
    /\ Stored[1].state # Absent
    /\ Stored[1].state[1].last_completed_at = Some([k |-> "iso", t |-> now])
    /\ StoredStatus(2) = Some("failed")
    /\ Stored[2].state[1].consecutive_failures = Some(1)
    /\ Stored[2].state[1].last_completed_at = Absent
    /\ Stored[2].state[1].last_started_at = Absent
    /\ Stored[2].state[1].next_available_at = Some([k |-> "bad", t |-> 0])

\* The four action names of the dispatcher
FourActions == {"memory_update", "reload_service", "claim_daily_rewards", "close_advertisement"}

\* What a run of record k by instance i must look like if it is handled as
\* an unknown action: no handler call, no exception, ok = false, details made
\* of "Unknown action: " and the name, and the record settled as failed with
\* the counter incremented and the cooldown applied
SettledAsUnknown(i, k, name) ==
    LET st == file'[1][k].state[1]
        c == CooldownOf(Stored[k])
        before == IF Stored[k].state = Absent \/ Stored[k].state[1].consecutive_failures = Absent
                  THEN 0 ELSE Stored[k].state[1].consecutive_failures[1]
    IN  /\ calls[i] = 0
        /\ ret'[i].kind = "ran"
        /\ ret'[i].ok = Some(FALSE)
        /\ ret'[i].details = Some("Unknown action: " \o name)
        /\ st.status = Some("failed")
        /\ st.last_result = ret'[i].details
        /\ st.consecutive_failures = Some(before + 1)
        /\ st.next_available_at =
            Some(IF c > 0 THEN [k |-> "iso", t |-> now + c] ELSE [k |-> "null", t |-> 0])

\* C14 as claimed: the run of a record whose action is not one of the four
\* names invokes no handler, does not raise, yields ok = false with details
\* naming the action, and is settled as a failed run.
C14_UnknownActionLiteral ==
    [][\A i \in Insts :
        (/\ pc[i] = "running" /\ pc'[i] = "idle"
         /\ Stored[sel[i]].action # Absent
         /\ Stored[sel[i]].action[1] \notin FourActions) =>
            SettledAsUnknown(i, sel[i], Stored[sel[i]].action[1])]_vars

\* C14 amended: the same for a record whose action, with the surrounding
\* whitespace removed, is not one of the four names.
C14_UnknownAction ==
    [][\A i \in Insts :
        (/\ pc[i] = "running" /\ pc'[i] = "idle"
         /\ Stored[sel[i]].action # Absent
         /\ Stored[sel[i]].action[1] \notin FourActions \cup {" reload_service "}) =>
            SettledAsUnknown(i, sel[i], Stored[sel[i]].action[1])]_vars

\* C14 witness: a record with the action "dance" was run without a handler
\* call and is persisted as failed, its cooldown running.
C14_Witness ==
    \E i \in Insts, j \in 1..Len(Stored) :
        /\ pc[i] = "idle"
        /\ ret[i].kind = "ran"
        /\ ret[i].ok = Some(FALSE)
        /\ ret[i].details = Some("Unknown action: dance")
        /\ calls[i] = 0
        /\ Stored[j].action = Some("dance")
        /\ StoredStatus(j) = Some("failed")
        /\ Stored[j].state[1].consecutive_failures = Some(1)
        /\ Stored[j].state[1].next_available_at = Some([k |-> "iso", t |-> now + 2])

\* C15: a run_once that finds no task file raises before it selects or
\* dispatches anything: no task is picked, no handler is called, and the
\* bounty board and the task file are left as they were (the file missing).
C15_MissingFileFatal ==
    [][\A i \in Insts :
        (pc[i] = "call" /\ file = Absent /\ pc'[i] # "call") =>
            /\ pc'[i] = "idle"
            /\ ret'[i].kind = "file_not_found"
            /\ picked'[i] = Absent
            /\ sel'[i] = 0
            /\ calls'[i] = 0
            /\ file' = Absent
            /\ board' = board]_vars

\* C15 witness: run_once has raised on a missing task file, and the board an
\* earlier cycle wrote is still the one on disk.
C15_Witness ==
    \E i \in Insts :
        /\ pc[i] = "idle"
        /\ ret[i].kind = "file_not_found"
        /\ file = Absent
        /\ board # Absent
        /\ board[1].updated_at.t < now
        /\ Len(board[1].tasks) > 0

\* C16: run_forever outlives a cycle that failed on a missing task file (it
\* goes on to try again on the next tick): no run_forever has ended with the
\* FileNotFoundError of such a cycle.
C16_RetriesAfterMissingFile ==
    \A i \in Insts : ~(pc[i] = "exited" /\ ret[i].kind = "file_not_found")

\* C17: in run_forever a cycle is started only from the top of the loop,
\* that is by an instance that is not between load and persist, and when an
\* earlier cycle of the loop has returned, only after that cycle's persist
\* and at least the sleep interval later.
C17_CyclesSerialized ==
    [][\A i \in Insts :
        (pc[i] # "loaded" /\ pc'[i] = "loaded") =>
            /\ pc[i] = "call"
            /\ (ret[i].kind \in {"ran", "no_available_task"}) =>
                    /\ board # Absent
                    /\ board[1].updated_at.t + 1 <= now]_vars

\* C17 witness: the handler of the previous cycle took a second, the cycle
\* was persisted, and the next cycle has loaded after the sleep.
C17_Witness ==
    \E i \in Insts :
        /\ pc[i] = "loaded"
        /\ board # Absent
        /\ board[1].updated_at.t < now
        /\ \E k \in 1..Len(Stored) :
            /\ Stored[k].state # Absent
            /\ Stored[k].state[1].last_started_at # Absent
            /\ Stored[k].state[1].last_completed_at = Some(board[1].updated_at)
            /\ Stored[k].state[1].last_started_at[1].t < board[1].updated_at.t

\* A field of a JSON object as the board shows it: the value, or d when the key is missing
Shown(field, d) == IF field = Absent THEN d ELSE field[1]

\* C18: the board a completed cycle writes has loop_type "closed" and, for
\* the task file the same cycle writes, exactly one entry per record in the
\* order of the file, each with the record's id, reward, priority,
\* cooldown_sec (0 when missing), next_available_at and last_result (null
\* when missing) as written to the file; it has no other entry, whatever
\* the board held before.
C18_BoardMirrors ==
    [][\A i \in Insts :
        CycleDone(i) =>
            /\ board' # Absent
            /\ board'[1].loop_type = "closed"
            /\ Len(board'[1].tasks) = Len(file'[1])
            /\ \A k \in 1..Len(file'[1]) :
                LET entry == board'[1].tasks[k]
                    task == file'[1][k]
                IN  /\ entry.id = task.id
                    /\ entry.reward = Shown(task.bounty.reward, 0)
                    /\ entry.priority = Shown(task.bounty.priority, 0)
                    /\ entry.cooldown_sec = Shown(task.bounty.cooldown_sec, 0)
                    /\ entry.next_available_at =
                            Shown(task.state[1].next_available_at, [k |-> "null", t |-> 0])
                    /\ entry.last_result = task.state[1].last_result]_vars

\* C18 witness: a cycle is completing on a task file of one record while the
\* board on disk still lists the two records of the file it replaced.
C18_Witness ==
    \E i \in Insts :
        /\ pc[i] = "running"
        /\ board # Absent
        /\ Len(board[1].tasks) = 2
        /\ Len(Stored) = 1
        /\ board[1].tasks[1].last_result # Absent
        /\ board[1].tasks[1].id # Stored[1].id

\* The fields of a task outside state: id, name, action, domain, runtime,
\* bounty and q_learning
NonState(task) == [task EXCEPT !.state = Absent]

\* C20: no step deletes, adds or reorders the records of the task file or
\* changes a field outside state, so after any sequence of cycles the file
\* has the tasks of the file first loaded, in the same order; and every
\* completed cycle, also one that ran nothing, writes the task file (every
\* record then has a state with the availability of that cycle).
C20_TasksPreserved ==
    [][/\ file' # Absent
       /\ Len(file'[1]) = Len(Stored)
       /\ \A k \in 1..Len(Stored) : NonState(file'[1][k]) = NonState(Stored[k])
       /\ \A i \in Insts :
            CycleDone(i) =>
                \A k \in 1..Len(Stored) :
                    /\ file'[1][k].state # Absent
                    /\ file'[1][k].state[1].available = Some(EligibleAt(file'[1][k], now))]_vars

\* C20 witness: a cycle that ran nothing has rewritten a file of two records,
\* a disabled one and one without id: both are still there, in their order,
\* with a state that holds the availability the cycle computed and nothing else.
C20_Witness ==
    /\ \E i \in Insts : pc[i] = "idle" /\ ret[i].kind = "no_available_task"
    /\ Len(Stored) = 2
    /\ Stored[1].runtime.enabled = Some(FALSE)
    /\ Stored[1].id = Some("a")
    /\ Stored[1].state = Some([status |-> <<>>, available |-> <<FALSE>>, last_started_at |-> <<>>,
                               last_completed_at |-> <<>>, next_available_at |-> <<>>,
                               last_result |-> <<>>, consecutive_failures |-> <<>>])
    /\ Stored[2].id = Absent
    /\ Stored[2].state # Absent
    /\ Stored[2].state[1].available = Some(TRUE)

\* Instance i completes a run of record k in this step and persists its
\* outcome: the status of the result and the time of completion
SettlesRecord(i, k) ==
    /\ pc[i] = "running"
    /\ ret'[i].kind = "ran"
    /\ sel[i] = k
    /\ file'[1][k].state[1].status = Some(IF ret'[i].ok[1] THEN "success" ELSE "failed")
    /\ file'[1][k].state[1].last_completed_at = Some([k |-> "iso", t |-> now])

\* C19: an instance that completes a cycle writes the task file from the
\* collection it loaded: every record but the one it settled is written as
\* loaded, so what another instance persisted since the load is overwritten
\* (the lost update of the witness).  While exactly one instance is live,
\* the persisted status, timestamps, last_result and consecutive_failures
\* of a record change only in the step that settles a run of that record:
\* nothing a completed cycle settled is lost between cycles.
C19_LostUpdates ==
    [][/\ \A i \in Insts :
            CycleDone(i) =>
                \A k \in 1..Len(data[i]) :
                    \/ SansAvailable(file'[1][k]) = SansAvailable(data[i][k])
                    \/ SettlesRecord(i, k)
       /\ (\A i \in Insts : i # 1 => pc[i] = "off") =>
            \A k \in 1..Len(Stored) :
                \/ SansAvailable(file'[1][k]) = SansAvailable(Stored[k])
                \/ SettlesRecord(1, k)]_vars

\* C19 witness: both instances have completed a run, of different tasks, and
\* the task file shows the task that instance 1 settled as never run.
C19_Witness ==
    /\ pc[1] = "idle" /\ pc[2] = "idle"
    /\ ret[1].kind = "ran" /\ ret[2].kind = "ran"
    /\ ret[1].task_id # ret[2].task_id
    /\ \E k \in 1..Len(Stored) :
        /\ Stored[k].id = ret[1].task_id
        /\ StoredStatus(k) = Absent
        /\ Stored[k].state[1].next_available_at = Absent
        /\ Stored[k].state[1].consecutive_failures = Absent
        /\ Stored[k].state[1].last_completed_at = Absent

\* C21: _refresh_availability gives every task a state whose available is
\* _available(task, now), whatever available was stored before, and leaves
\* every other field as it was; a second refresh at the same now changes
\* nothing.
C21_RefreshIdempotent ==
    /\ [](probe.step = "refresh" =>
            /\ Len(data[1]) = Len(probe.tasks)
            /\ \A k \in 1..Len(probe.tasks) :
                /\ data[1][k].state # Absent
                /\ data[1][k].state[1].available = Some(EligibleAt(probe.tasks[k], probe.t))
                /\ SansAvailable(data[1][k]) = SansAvailable(probe.tasks[k]))
    /\ [][(probe.step = "refresh" /\ probe'.step = "refresh2") => data' = data]_vars

\* C21 witness: a task stored as available although its cooldown is still
\* running, next to a task without state, has been refreshed twice: the
\* first is now unavailable and the second has a state.
C21_Witness ==
    /\ probe.step = "refresh2"
    /\ Len(probe.tasks) = 2
    /\ probe.tasks[1].state # Absent
    /\ probe.tasks[1].state[1].available = Some(TRUE)
    /\ probe.tasks[1].state[1].status = Some("success")
    /\ probe.tasks[2].state = Absent
    /\ data[1][1].state[1].available = Some(FALSE)
    /\ data[1][2].state # Absent
    /\ data[1][2].state[1].available = Some(TRUE)

\* state.next_available_at of the task is present and is null, the empty
\* string or a string that is no timestamp
Malformed(task) ==
    /\ task.state # Absent
    /\ task.state[1].next_available_at # Absent
    /\ task.state[1].next_available_at[1].k \in {"null", "empty", "bad"}

\* The task without the key next_available_at
SansNextAvailable(task) ==
    [task EXCEPT !.state = Some([task.state[1] EXCEPT !.next_available_at = Absent])]

\* C22: a task whose next_available_at is null, empty or a string that does
\* not parse is gated like the same task without next_available_at: it is
\* available exactly when it is enabled and not running, as computed by
\* _available, written by the refresh and shown on the board; refresh,
\* selection and publishing all return on it.
C22_MalformedTimestamps ==
    \A k \in 1..Len(probe.tasks) :
        Malformed(probe.tasks[k]) =>
            LET open == /\ probe.tasks[k].runtime.enabled # Some(FALSE)
                        /\ probe.tasks[k].state[1].status # Some("running")
            IN  /\ (probe.step = "available") =>
                    /\ probe.flags[k] = open
                    /\ probe.flags[k] = _available(SansNextAvailable(probe.tasks[k]), probe.t)
                /\ (probe.step \in {"refresh", "refresh2", "board"}) =>
                    data[1][k].state[1].available = Some(open)
                /\ (probe.step = "board") =>
                    /\ board[1].tasks[k].available = open
                    /\ board[1].tasks[k].next_available_at = probe.tasks[k].state[1].next_available_at[1]

\* C22 witness: an enabled task that failed before and whose
\* next_available_at does not parse, stored as unavailable, is published as
\* available.
C22_Witness ==
    /\ probe.step = "board"
    /\ Len(probe.tasks) = 1
    /\ probe.tasks[1].state # Absent
    /\ probe.tasks[1].state[1].next_available_at = Some([k |-> "bad", t |-> 0])
    /\ probe.tasks[1].state[1].status = Some("failed")
    /\ probe.tasks[1].state[1].available = Some(FALSE)
    /\ probe.t > 0
    /\ board[1].tasks[1].available = TRUE
    /\ data[1][1].state[1].available = Some(TRUE)

\* The task file holds one task, which is enabled, has no state, a non-empty
\* id, one of the four actions and a cooldown > 0
FreshFile ==
    /\ Len(Stored) = 1
    /\ Stored[1].state = Absent
    /\ Stored[1].runtime.enabled # Some(FALSE)
    /\ Stored[1].id # Absent /\ Stored[1].id # Some("")
    /\ Stored[1].action # Absent /\ Stored[1].action[1] \in FourActions
    /\ CooldownOf(Stored[1]) > 0

\* C23: on a task file whose only task is enabled, has no state, an id, a
\* recognized action and cooldown c > 0, a run_once without preferred id
\* finds the task eligible and runs it; when the handler returns ok, run_once
\* returns ran = true with the id and ok = true, and persists status
\* "success" and next_available_at = completion time + c, with available
\* false in the file and in the board entry.
C23_FirstRun ==
    /\ [][\A i \in Insts :
            (pc[i] = "loaded" /\ pc'[i] # "loaded" /\ FreshFile /\ preferred[i] \in {Absent, Some("")}) =>
                /\ data[i][1].state[1].available = Some(TRUE)
                /\ pc'[i] = "running"
                /\ picked'[i] = Stored[1].id
                /\ sel'[i] = 1]_vars
    /\ [][\A i \in Insts :
            (pc[i] = "running" /\ FreshFile /\ ret'[i].ok = Some(TRUE)) =>
                /\ ret'[i].kind = "ran"
                /\ ret'[i].task_id = Stored[1].id
                /\ file'[1][1].state[1].status = Some("success")
                /\ file'[1][1].state[1].next_available_at =
                        Some([k |-> "iso", t |-> now + CooldownOf(Stored[1])])
                /\ file'[1][1].state[1].last_completed_at = Some([k |-> "iso", t |-> now])
                /\ file'[1][1].state[1].available = Some(FALSE)
                /\ Len(board'[1].tasks) = 1
                /\ board'[1].tasks[1].id = Stored[1].id
                /\ board'[1].tasks[1].available = FALSE]_vars

\* C23 witness: the only task, started at time 0 and completed with ok at
\* time 1, is persisted as a success with next_available_at = 3 and is
\* unavailable on the board.
C23_Witness ==
    /\ Len(Stored) = 1
    /\ now = 1
    /\ \E i \in Insts : pc[i] = "idle" /\ ret[i].kind = "ran" /\ ret[i].ok = Some(TRUE)
                        /\ ret[i].task_id = Some("a")
    /\ StoredStatus(1) = Some("success")
    /\ Stored[1].bounty.cooldown_sec = Some(2)
    /\ Stored[1].state[1].last_started_at = Some([k |-> "iso", t |-> 0])
    /\ Stored[1].state[1].next_available_at = Some([k |-> "iso", t |-> 3])
    /\ Stored[1].state[1].consecutive_failures = Some(0)
    /\ board # Absent
    /\ board[1].tasks[1].available = FALSE

\* C24: while an instance has marked a record running and is awaiting its
\* handler, a cycle that another instance loads from the same task file
\* finds that record unavailable, and so neither selects nor dispatches it.
C24_RunningMarkLocks ==
    [][\A i, j \in Insts :
        (/\ i # j
         /\ pc[i] = "running" /\ pc'[i] = "running"
         /\ pc[j] = "idle" /\ pc'[j] = "loaded") =>
            data'[j][sel[i]].state[1].available = Some(FALSE)]_vars


\* The positions of a cycle that runs a task, in the order of the statements
CycleOrder ==
    <<"idle", "s_loaded", "s_refreshed", "s_selected", "s_marked", "s_dispatched",
      "s_returned", "s_settled", "s_ready", "s_published", "idle">>

\* The record carries the running mark
MarkedRunning(task) ==
    /\ task.state # Absent
    /\ task.state[1].status = Some("running")
    /\ task.state[1].last_started_at # Absent
    /\ task.state[1].last_started_at[1].k = "iso"
    /\ task.state[1].available = Some(FALSE)

\* C25: in every cycle that runs a task the steps occur in the order load,
\* refresh, select, mark running, dispatch, settle, refresh, write bounty
\* board, write task file; the record is marked running (status "running",
\* last_started_at set, available false) when the handler is invoked, and
\* neither file is written between the load and the handler's return.
C25_StepOrder ==
    /\ [](\A i \in Insts :
            pc[i] \in {"s_marked", "s_dispatched", "s_returned"} => MarkedRunning(data[i][sel[i]]))
    /\ [][\A i \in Insts :
            (pc'[i] # pc[i] /\ (sel[i] # 0 \/ sel'[i] # 0) /\ ret'[i].kind # "raised") =>
                \E n \in 1..(Len(CycleOrder) - 1) :
                    pc[i] = CycleOrder[n] /\ pc'[i] = CycleOrder[n + 1]]_vars
    /\ [][\A i \in Insts :
            /\ pc[i] \in {"s_loaded", "s_refreshed", "s_selected", "s_marked", "s_dispatched",
                          "s_returned", "s_settled"}
                    => file' = file /\ board' = board
            /\ (pc[i] = "s_settled" /\ pc'[i] # pc[i]) =>
                    /\ data[i][sel[i]].state[1].status \in {Some("success"), Some("failed")}
                    /\ data'[i] = _refresh_availability(data[i], now)
            /\ (pc[i] = "s_ready" /\ pc'[i] # pc[i]) =>
                    /\ board' = Some(_to_bounty_board(data[i], now))
                    /\ file' = file
            /\ (pc[i] = "s_published" /\ pc'[i] # pc[i]) =>
                    /\ file' = Some(data[i])
                    /\ board' = board
                    /\ board[1].tasks = [k \in 1..Len(data[i]) |-> BoardEntry(data[i][k])]]_vars

\* C25 witness: a cycle has run and settled a record and written the board,
\* and the task file still holds what was loaded
C25_Witness ==
    /\ pc[1] = "s_published"
    /\ sel[1] # 0
    /\ now > 0
    /\ ret[1].kind = "ran"
    /\ data[1][sel[1]].state[1].status = Some("success")
    /\ data[1][sel[1]].state[1].last_started_at = Some(isoformat(now - 1))
    /\ board # Absent
    /\ board[1].updated_at = isoformat(now)
    /\ StoredStatus(sel[1]) # Some("success")


\* C26: with no preferred id, a cycle whose refresh leaves at least one task
\* available (records without an id or with an empty id included) dispatches
\* a top-ranked available task and returns ran=true, and the cycle returns
\* no_available_task only when no task is available.
C26_GreedyRunsAvailable ==
    [][\A i \in Insts :
        (pc[i] = "loaded" /\ pc'[i] # "loaded" /\ preferred[i] = Absent) =>
            IF \E k \in 1..Len(data[i]) : Flagged(data[i][k])
            THEN /\ pc'[i] = "running"
                 /\ \E k \in TopRanked(data[i]) : picked'[i] = data[i][k].id
            ELSE /\ pc'[i] = "idle"
                 /\ ret'[i] = NoTaskReturn]_vars


\* C27: computing the board snapshot modifies no field of any task record;
\* the task collection is the same before and after _to_bounty_board.
C27_ProjectionPure ==
    probe.step = "board" => data[1] = probe.tasks


\* C28: the record that a cycle marks running and dispatches is a record
\* whose state.available was true after the cycle's first refresh, also when
\* several records share one id.
C28_RunsEligibleRecord ==
    [][\A i \in Insts :
        (pc[i] = "loaded" /\ pc'[i] = "running") => Flagged(data[i][sel'[i]])]_vars


\* C29: no step of the service adds a status "running" to the task file: a
\* record of a written task file has status "running" only if the record had
\* it in the file before the cycle (the board entries carry no status), so
\* from a file without running tasks no completed or aborted cycle of a
\* single instance persists a status "running".
C29_RunningNeverPersisted ==
    [][file' # file =>
        /\ Len(file'[1]) = Len(Stored)
        /\ \A k \in 1..Len(Stored) :
            file'[1][k].state[1].status = Some("running") => StoredStatus(k) = Some("running")]_vars

\* C29 witness: a handler has raised, a later cycle has completed a run, and
\* the written task file shows no record as running
C29_Witness ==
    /\ raised # {}
    /\ \E i \in Insts : pc[i] = "idle" /\ ret[i].kind = "ran"
    /\ \E k \in 1..Len(Stored) : StoredStatus(k) \in {Some("success"), Some("failed")}
    /\ \A k \in 1..Len(Stored) : StoredStatus(k) # Some("running")


\* Record k of the task file is enabled and a cycle has just settled it, with
\* a next_available_at that lies within the modelled times
JustRan(k) ==
    /\ pc[1] = "idle"
    /\ ret[1].kind = "ran"
    /\ k <= Len(Stored)
    /\ Stored[k].runtime.enabled # Some(FALSE)
    /\ Stored[k].state # Absent
    /\ Stored[k].state[1].last_completed_at = Some(isoformat(now))
    /\ now + CooldownOf(Stored[k]) <= MaxTime

\* The refresh of a cycle has computed record k as available
AvailableAgain(k) ==
    /\ pc[1] = "loaded"
    /\ k <= Len(data[1])
    /\ data[1][k].state[1].available = Some(TRUE)

====
